---- MODULE Spec2Model ----
(***************************************************************************)
(* A model of tumblelog.py: one run of create_blog over one log file.      *)
(*                                                                         *)
(* Text is a sequence of tokens.  A token is a record [k, v]: a newline,   *)
(* the separator character '%', a space, an ordinary character Ch(i), or a *)
(* date token standing for the ten characters YYYY-MM-DD that the regular  *)
(* expression \d{4}-\d{2}-\d{2} matches; its value is the number YYYYMMDD. *)
(* HTML is a sequence of fragments, one record per element the code emits. *)
(***************************************************************************)
EXTENDS Integers, Sequences, FiniteSets

VARIABLES text, cfgDays, pc, err, entries, days, archive, dirs, files,
          feed, index, week_body_html, current_year_week, year_week,
          next_prev_html

vars == <<text, cfgDays, pc, err, entries, days, archive, dirs, files,
          feed, index, week_body_html, current_year_week, year_week,
          next_prev_html>>

\* ------------------------------------------------------------ bounds
MaxChunks == 3
MaxRawLen == 4
MaxDaysLimit == 3

\* ------------------------------------------------------------ tokens
NL == [k |-> "nl", v |-> 0]
PCT == [k |-> "pct", v |-> 0]
SP == [k |-> "sp", v |-> 0]
Ch(i) == [k |-> "ch", v |-> i]
DateTok(d) == [k |-> "date", v |-> d]

\* The dates of the logs explored: 2020-12-31 (Thu, ISO 2020-W53),
\* 2021-01-02 (Sat, ISO 2020-W53), 2021-01-03 (Sun, ISO 2020-W53),
\* 2021-01-04 (Mon, ISO 2021-W01), 2021-01-11 (Mon, ISO 2021-W02).
Dates == {20201231, 20210102, 20210103, 20210104, 20210111}

SeqsUpTo(S, n) == UNION {[1..m -> S] : m \in 0..n}

RECURSIVE Concat(_)
Concat(ss) == IF ss = <<>> THEN <<>> ELSE Head(ss) \o Concat(Tail(ss))

\* ------------------------------------------------------------ dates
\* split_date: the three fields of "YYYY-MM-DD".
split_date(date) ==
    [year |-> date \div 10000, month |-> (date \div 100) % 100,
     day |-> date % 100]

IsLeap(y) == (y % 4 = 0) /\ ((y % 100 # 0) \/ (y % 400 = 0))

DaysBeforeMonth(y, m) ==
    LET cum == <<0, 31, 59, 90, 120, 151, 181, 212, 243, 273, 304, 334>>
    IN  cum[m] + (IF m > 2 /\ IsLeap(y) THEN 1 ELSE 0)

DaysBeforeYear(y) ==
    LET p == y - 1
    IN  p * 365 + (p \div 4) - (p \div 100) + (p \div 400)

\* parse_date: strptime('%Y-%m-%d'), as the proleptic Gregorian ordinal.
parse_date(date) ==
    LET f == split_date(date)
    IN  DaysBeforeYear(f.year) + DaysBeforeMonth(f.year, f.month) + f.day

IsoWeek1Monday(y) ==
    LET firstday == DaysBeforeYear(y) + 1
        firstweekday == (firstday + 6) % 7
        monday == firstday - firstweekday
    IN  IF firstweekday > 3 THEN monday + 7 ELSE monday

\* dt.isocalendar()[0:2]: the ISO week-year and the ISO week number.
isocalendar(date) ==
    LET y == split_date(date).year
        today == parse_date(date)
        off == today - IsoWeek1Monday(y)
    IN  IF off < 0
        THEN [year |-> y - 1,
              week |-> ((today - IsoWeek1Monday(y - 1)) \div 7) + 1]
        ELSE IF (off \div 7) >= 52 /\ today >= IsoWeek1Monday(y + 1)
        THEN [year |-> y + 1, week |-> 1]
        ELSE [year |-> y, week |-> (off \div 7) + 1]

\* join_year_week: the string "YYYY-WW", as the number YYYYWW.
join_year_week(year, week) == year * 100 + week

\* split_year_week: the two fields of "YYYY-WW".
split_year_week(yw) == [year |-> yw \div 100, week |-> yw % 100]

get_year_week(date) ==
    LET iso == isocalendar(date) IN join_year_week(iso.year, iso.week)

\* ------------------------------------------------------------ reading
\* str.split('%\n'): cut at every occurrence of the two characters, left
\* to right, keeping empty pieces.
RECURSIVE SplitFrom(_, _, _)
SplitFrom(t, i, cur) ==
    IF i > Len(t) THEN <<cur>>
    ELSE IF i < Len(t) /\ t[i] = PCT /\ t[i + 1] = NL
         THEN <<cur>> \o SplitFrom(t, i + 2, <<>>)
         ELSE SplitFrom(t, i + 1, Append(cur, t[i]))

split(t) == SplitFrom(t, 1, <<>>)

\* The reader without its filter: empty pieces are kept.
read_keeping_empty(t) == split(t)

\* [item for item in ... if item]
read_tumblelog_entries(t) == SelectSeq(split(t), LAMBDA item : item # <<>>)

\* ------------------------------------------------------------ collecting
\* The position of the first newline of an entry, 0 when it has none.
FirstNL(e) ==
    IF \E j \in 1..Len(e) : e[j] = NL
    THEN CHOOSE j \in 1..Len(e) : e[j] = NL /\ \A h \in 1..(j - 1) : e[h] # NL
    ELSE 0

\* pattern.match(entry): (\d{4}-\d{2}-\d{2})(.*?)\n(.*) with DOTALL.
Matches(e) == Len(e) >= 1 /\ e[1].k = "date" /\ FirstNL(e) # 0

Group1(e) == e[1].v
Group2(e) == SubSeq(e, 2, FirstNL(e) - 1)
Group3(e) == SubSeq(e, FirstNL(e) + 1, Len(e))

\* str.strip()
RECURSIVE strip(_)
strip(s) ==
    IF s = <<>> THEN s
    ELSE IF Head(s) = SP \/ Head(s) = NL THEN strip(Tail(s))
    ELSE IF s[Len(s)] = SP \/ s[Len(s)] = NL
         THEN strip(SubSeq(s, 1, Len(s) - 1))
         ELSE s

\* The entry appended to the open day: the body after a date line, or the
\* whole chunk.
EntryBody(e) == IF Matches(e) THEN Group3(e) ELSE e

\* The loop turn with the entry appended to days[0] in place of days[-1].
CollectStepFirstDay(ds, e) ==
    LET opened == IF Matches(e)
                  THEN Append(ds, [date |-> Group1(e),
                                   title |-> strip(Group2(e)),
                                   entries |-> <<>>])
                  ELSE ds
    IN  [opened EXCEPT ![1].entries = Append(@, EntryBody(e))]

\* One turn of the loop of collect_days over the day list built so far.
\* The caller has checked that a date is established.
CollectStep(ds, e) ==
    LET opened == IF Matches(e)
                  THEN Append(ds, [date |-> Group1(e),
                                   title |-> strip(Group2(e)),
                                   entries |-> <<>>])
                  ELSE ds
        n == Len(opened)
    IN  [opened EXCEPT ![n].entries = Append(@, EntryBody(e))]

RECURSIVE CollectLoop(_, _)
CollectLoop(ds, es) ==
    IF es = <<>> THEN ds
    ELSE CollectLoop(CollectStep(ds, Head(es)), Tail(es))

\* sorted(days, key=itemgetter('date'), reverse=True): a stable sort,
\* descending; days of equal date keep their order.
RECURSIVE InsertDay(_, _)
InsertDay(sorted, d) ==
    IF sorted = <<>> THEN <<d>>
    ELSE IF Head(sorted).date >= d.date
         THEN <<Head(sorted)>> \o InsertDay(Tail(sorted), d)
         ELSE <<d>> \o sorted

RECURSIVE SortDays(_)
SortDays(ds) ==
    IF ds = <<>> THEN <<>>
    ELSE InsertDay(SortDays(SubSeq(ds, 1, Len(ds) - 1)), ds[Len(ds)])

\* date is None at the first entry: the first chunk does not match.
NoDate(es) == es # <<>> /\ ~Matches(es[1])

collect_days(es) == SortDays(CollectLoop(<<>>, es))

\* ------------------------------------------------------------ archive
\* The loop turn with append in place of appendleft.
ArchiveStepAppend(st, day) ==
    LET iso == isocalendar(day.date)
        yw == join_year_week(iso.year, iso.week)
        old == IF iso.year \in DOMAIN st.archive
               THEN st.archive[iso.year] ELSE <<>>
    IN  IF yw \in st.seen THEN st
        ELSE [seen |-> st.seen \cup {yw},
              archive |-> [y \in DOMAIN st.archive \cup {iso.year} |->
                              IF y = iso.year THEN old \o <<iso.week>>
                              ELSE st.archive[y]]]

\* One turn of the loop of create_archive; st = [seen, archive].
ArchiveStep(st, day) ==
    LET iso == isocalendar(day.date)
        yw == join_year_week(iso.year, iso.week)
        old == IF iso.year \in DOMAIN st.archive
               THEN st.archive[iso.year] ELSE <<>>
    IN  IF yw \in st.seen THEN st
        ELSE [seen |-> st.seen \cup {yw},
              archive |-> [y \in DOMAIN st.archive \cup {iso.year} |->
                              IF y = iso.year THEN <<iso.week>> \o old
                              ELSE st.archive[y]]]

RECURSIVE ArchiveLoop(_, _)
ArchiveLoop(st, ds) ==
    IF ds = <<>> THEN st ELSE ArchiveLoop(ArchiveStep(st, Head(ds)), Tail(ds))

EmptyArchive == [y \in {} |-> <<>>]

create_archive(ds) ==
    ArchiveLoop([seen |-> {}, archive |-> EmptyArchive], ds).archive

\* ------------------------------------------------------------ html
Frag(tag, a, b, e) == [tag |-> tag, a |-> a, b |-> b, e |-> e]

\* sorted(archive.keys(), reverse=True)
RECURSIVE SortedDesc(_)
SortedDesc(S) ==
    IF S = {} THEN <<>>
    ELSE LET m == CHOOSE x \in S : \A y \in S : y <= x
         IN  <<m>> \o SortedDesc(S \ {m})

\* The <li> of one week: the marker of the current week, or a link.
\* current is 0 for None.
ArchiveItem(year, week, current) ==
    IF current # 0 /\ join_year_week(year, week) = current
    THEN Frag("self", year, week, <<>>)
    ELSE Frag("link", year, week, <<>>)

html_for_archive(a, current) ==
    LET years == SortedDesc(DOMAIN a)
        block(y) == <<Frag("dt", y, 0, <<>>)>> \o
                    [j \in 1..Len(a[y]) |-> ArchiveItem(y, a[y][j], current)]
    IN  Concat([j \in 1..Len(years) |-> block(years[j])])

html_for_date(date) == <<Frag("time", date, 0, <<>>)>>

html_for_entry(entry) == <<Frag("article", 0, 0, entry)>>

\* html_link_for_day: the link goes to the day's date; its text is the
\* title, or the formatted date when there is no title.
html_link_for_day(tag, day) ==
    Frag(tag, day.date, 0,
         IF day.title # <<>> THEN day.title ELSE <<DateTok(day.date)>>)

\* The navigation with the two neighbours taken the other way round.
html_for_next_prev_swapped(ds, i) ==
    IF Len(ds) = 1 THEN <<>>
    ELSE <<Frag("nav", 0, 0, <<>>)>>
         \o (IF i < Len(ds) - 1
             THEN <<html_link_for_day("next", ds[(i + 1) + 1])>>
             ELSE <<>>)
         \o (IF i # 0 THEN <<html_link_for_day("prev", ds[(i - 1) + 1])>>
             ELSE <<>>)
         \o <<Frag("/nav", 0, 0, <<>>)>>

\* index counts from 0, as in the code.
html_for_next_prev(ds, i) ==
    IF Len(ds) = 1 THEN <<>>
    ELSE <<Frag("nav", 0, 0, <<>>)>>
         \o (IF i # 0 THEN <<html_link_for_day("next", ds[(i - 1) + 1])>>
             ELSE <<>>)
         \o (IF i < Len(ds) - 1
             THEN <<html_link_for_day("prev", ds[(i + 1) + 1])>>
             ELSE <<>>)
         \o <<Frag("/nav", 0, 0, <<>>)>>

EntriesHtml(day) ==
    Concat([j \in 1..Len(day.entries) |-> html_for_entry(day.entries[j])])

\* ------------------------------------------------------------ pages
IndexPath == [kind |-> "index", y |-> 0, m |-> 0, d |-> 0]
DayPath(date) ==
    LET f == split_date(date)
    IN  [kind |-> "day", y |-> f.year, m |-> f.month, d |-> f.day]
WeekPath(yw) ==
    LET f == split_year_week(yw)
    IN  [kind |-> "week", y |-> f.year, m |-> 0, d |-> f.week]

RootDir == [kind |-> "root", y |-> 0, m |-> 0]
MonthDir(date) ==
    LET f == split_date(date)
    IN  [kind |-> "month", y |-> f.year, m |-> f.month]
WeekDir(yw) == [kind |-> "week", y |-> split_year_week(yw).year, m |-> 0]

max_year(ds) == split_date(ds[1].date).year
min_year(ds) == split_date(ds[Len(ds)].date).year

\* create_page, line 202: f'{min-year}...' names no variable of the
\* function, so evaluating it raises NameError before anything is written.
create_page_raises(lo, hi) == lo # hi

\* The page create_page writes when it does not raise.
create_page(path, body_html, archive_html, lo, hi) ==
    [path |-> path, body |-> body_html, archive |-> archive_html,
     year_range |-> <<lo>>]

\* The loops of create_index and create_json_feed: the days visited until
\* the countdown todo reaches zero.
RECURSIVE DaysUntilBreak(_, _)
DaysUntilBreak(ds, todo) ==
    IF ds = <<>> THEN <<>>
    ELSE IF todo - 1 = 0 THEN <<Head(ds)>>
    ELSE <<Head(ds)>> \o DaysUntilBreak(Tail(ds), todo - 1)

DayBody(day) == html_for_date(day.date) \o EntriesHtml(day)

index_body_html(ds, k) ==
    LET shown == DaysUntilBreak(ds, k)
    IN  Concat([j \in 1..Len(shown) |-> DayBody(shown[j])])

feed_items(ds, k) ==
    LET shown == DaysUntilBreak(ds, k)
    IN  [j \in 1..Len(shown) |->
            [url |-> DayPath(shown[j].date),
             title |-> IF shown[j].title # <<>> THEN shown[j].title
                       ELSE <<DateTok(shown[j].date)>>,
             content_html |-> EntriesHtml(shown[j]),
             date_published |-> shown[j].date]]

\* ------------------------------------------------------------ inputs
\* The chunks a log is written from: a date line and a body, a date line
\* with a title and a body, a body alone, and a date followed by text but
\* by no newline.  Chunk i carries the character Ch(i), so every chunk of a
\* log is told from the others.
Forms ==
    {[form |-> "plain", date |-> d] : d \in Dates}
    \cup {[form |-> "titled", date |-> 20210104],
          [form |-> "undated", date |-> 0],
          [form |-> "nonl", date |-> 20210103]}

ChunkText(f, i) ==
    CASE f.form = "plain" -> <<DateTok(f.date), NL, Ch(i), NL>>
      [] f.form = "titled" -> <<DateTok(f.date), SP, Ch(0), NL, Ch(i), NL>>
      [] f.form = "undated" -> <<Ch(i), NL>>
      [] f.form = "nonl" -> <<DateTok(f.date), Ch(i)>>

\* The chunks joined by separator lines.
LogText(fs) ==
    Concat([i \in 1..Len(fs) |->
               (IF i > 1 THEN <<PCT, NL>> ELSE <<>>) \o ChunkText(fs[i], i)])

WrittenLogs == {LogText(fs) : fs \in SeqsUpTo(Forms, MaxChunks)}

\* Every short text over the characters that matter to the reader.
RawLogs == SeqsUpTo({PCT, NL, Ch(1), DateTok(20210104)}, MaxRawLen)

\* ------------------------------------------------------------ the run
Init ==
    /\ text \in WrittenLogs \cup RawLogs
    /\ cfgDays \in 0..MaxDaysLimit
    /\ pc = "read"
    /\ err = "none"
    /\ entries = <<>>
    /\ days = <<>>
    /\ archive = EmptyArchive
    /\ dirs = {}
    /\ files = <<>>
    /\ feed = <<>>
    /\ index = 0
    /\ week_body_html = <<>>
    /\ current_year_week = 0
    /\ year_week = 0
    /\ next_prev_html = <<>>

LoopVars == <<index, week_body_html, current_year_week, year_week,
              next_prev_html>>

\* read_tumblelog_entries, called from create_blog.
ReadEntries ==
    /\ pc = "read"
    /\ entries' = read_tumblelog_entries(text)
    /\ IF entries' = <<>>
       THEN pc' = "error" /\ err' = "NoEntriesError"
       ELSE pc' = "collect" /\ err' = err
    /\ UNCHANGED <<text, cfgDays, days, archive, dirs, files, feed, LoopVars>>

\* collect_days.
CollectDays ==
    /\ pc = "collect"
    /\ IF NoDate(entries)
       THEN pc' = "error" /\ err' = "NoDateSpecified" /\ days' = days
       ELSE pc' = "archive" /\ err' = err /\ days' = collect_days(entries)
    /\ UNCHANGED <<text, cfgDays, entries, archive, dirs, files, feed,
                   LoopVars>>

\* create_blog, lines 364-367: the years and the archive.
CreateArchive ==
    /\ pc = "archive"
    /\ archive' = create_archive(days)
    /\ pc' = "index"
    /\ UNCHANGED <<text, cfgDays, err, entries, days, dirs, files, feed,
                   LoopVars>>

\* create_index: the output directory is made, then the page is written.
CreateIndex ==
    /\ pc = "index"
    /\ dirs' = dirs \cup {RootDir}
    /\ IF create_page_raises(min_year(days), max_year(days))
       THEN pc' = "error" /\ err' = "NameError" /\ files' = files
       ELSE /\ pc' = "pages"
            /\ err' = err
            /\ files' = Append(files,
                   create_page(IndexPath, index_body_html(days, cfgDays),
                               html_for_archive(archive, 0),
                               min_year(days), max_year(days)))
    /\ UNCHANGED <<text, cfgDays, entries, days, archive, feed, LoopVars>>

\* create_day_and_week_pages, lines 271-275.
BeginDayAndWeekPages ==
    /\ pc = "pages"
    /\ week_body_html' = <<>>
    /\ current_year_week' = get_year_week(days[1].date)
    /\ index' = 0
    /\ pc' = "day"
    /\ UNCHANGED <<text, cfgDays, err, entries, days, archive, dirs, files,
                   feed, year_week, next_prev_html>>

\* The week page with no current week handed to html_for_archive.
create_week_page_no_current(yw, body_html) ==
    create_page(WeekPath(yw), body_html, html_for_archive(archive, 0),
                min_year(days), max_year(days))

\* create_week_page: the directory and the page of one week.
create_week_page(yw, body_html) ==
    create_page(WeekPath(yw), body_html, html_for_archive(archive, yw),
                min_year(days), max_year(days))

\* The navigation after the loop over the day's entries: computed in the
\* loop, so a day without entries would keep the value of the day before.
NextPrevAfterEntries(day) ==
    IF day.entries # <<>> THEN html_for_next_prev(days, index)
    ELSE next_prev_html

\* The week body never started anew at a week boundary.
WeekBodyNeverReset(yw, day_body_html) == week_body_html \o day_body_html

\* Lines 297-305: the body of the week being gathered, after a day whose
\* week is yw.
WeekBodyAfter(yw, day_body_html) ==
    IF yw = current_year_week THEN week_body_html \o day_body_html
    ELSE day_body_html

\* One turn of the loop of create_day_and_week_pages: the day's page, and
\* the page of the week before when the day opens another week.
DayPage ==
    /\ pc = "day"
    /\ index < Len(days)
    /\ LET day == days[index + 1]
           day_body_html == DayBody(day)
           nav == NextPrevAfterEntries(day)
           yw == get_year_week(day.date)
           day_page == create_page(DayPath(day.date), day_body_html \o nav,
                                   html_for_archive(archive, 0),
                                   min_year(days), max_year(days))
       IN  /\ next_prev_html' = nav
           /\ IF create_page_raises(min_year(days), max_year(days))
              THEN /\ pc' = "error" /\ err' = "NameError"
                   /\ dirs' = dirs \cup {MonthDir(day.date)}
                   /\ UNCHANGED <<files, index, week_body_html,
                                  current_year_week, year_week>>
              ELSE /\ pc' = pc /\ err' = err
                   /\ year_week' = yw
                   /\ index' = index + 1
                   /\ week_body_html' = WeekBodyAfter(yw, day_body_html)
                   /\ IF yw = current_year_week
                      THEN /\ current_year_week' = current_year_week
                           /\ dirs' = dirs \cup {MonthDir(day.date)}
                           /\ files' = Append(files, day_page)
                      ELSE /\ current_year_week' = yw
                           /\ dirs' = dirs \cup {MonthDir(day.date),
                                                 WeekDir(current_year_week)}
                           /\ files' = files \o
                                  <<day_page,
                                    create_week_page(current_year_week,
                                                     week_body_html)>>
    /\ UNCHANGED <<text, cfgDays, entries, days, archive, feed>>

\* create_day_and_week_pages, lines 309-312: the page of the last week.
FinalWeekPage ==
    /\ pc = "day"
    /\ index = Len(days)
    /\ dirs' = dirs \cup {WeekDir(year_week)}
    /\ files' = Append(files, create_week_page(year_week, week_body_html))
    /\ pc' = "feed"
    /\ UNCHANGED <<text, cfgDays, err, entries, days, archive, feed,
                   LoopVars>>

\* create_json_feed.
CreateJsonFeed ==
    /\ pc = "feed"
    /\ feed' = Append(feed, feed_items(days, cfgDays))
    /\ pc' = "done"
    /\ UNCHANGED <<text, cfgDays, err, entries, days, archive, dirs, files,
                   LoopVars>>

Next ==
    \/ ReadEntries
    \/ CollectDays
    \/ CreateArchive
    \/ CreateIndex
    \/ BeginDayAndWeekPages
    \/ DayPage
    \/ FinalWeekPage
    \/ CreateJsonFeed

Spec == Init /\ [][Next]_vars

\* ------------------------------------------------------------ properties
\* collect_days has returned: the day list is the sorted one.
DaysCollected ==
    \/ pc \in {"archive", "index", "pages", "day", "feed", "done"}
    \/ pc = "error" /\ err = "NameError"

RunEnded == pc \in {"done", "error"}

DatedIdx == {i \in 1..Len(entries) : Matches(entries[i])}

Count(sq, Test(_)) == Len(SelectSeq(sq, Test))

FilesOfKind(kind) == SelectSeq(files, LAMBDA f : f.path.kind = kind)

\* C1: the days returned by collect_days are strictly descending by date,
\* and there are as many of them as distinct dates among the dated chunks.
C1_DaysStrictlyDescending ==
    DaysCollected =>
        /\ \A i, j \in 1..Len(days) : i < j => days[i].date > days[j].date
        /\ Len(days) = Cardinality({entries[i][1].v : i \in DatedIdx})

\* The label the template is to receive for the years lo..hi.
YearRangeLabel(lo, hi) == IF lo = hi THEN <<lo>> ELSE <<lo, hi>>

\* C2: a run over a dated log ends with its pages written, each with the
\* year-range label of the site: the year alone, or the first and the last
\* year when the days span more than one calendar year.
C2_YearRangeLabel ==
    (RunEnded /\ days # <<>>) =>
        /\ files # <<>>
        /\ \A i \in 1..Len(files) :
              files[i].year_range =
                  YearRangeLabel(min_year(days), max_year(days))

\* The dates of the days a page body shows, in order.
DatesShown(body) ==
    LET heads == SelectSeq(body, LAMBDA f : f.tag = "time")
    IN  [j \in 1..Len(heads) |-> heads[j].a]

FirstDates(k) == [j \in 1..k |-> days[j].date]

\* C3: the home page and the feed never hold more than cfgDays days, and
\* for 0 < cfgDays < Len(days) both hold exactly the first cfgDays days.
C3_DaysLimit ==
    /\ \A i \in 1..Len(files) :
          files[i].path.kind = "index" =>
              /\ Len(DatesShown(files[i].body)) <= cfgDays
              /\ (0 < cfgDays /\ cfgDays < Len(days)) =>
                     DatesShown(files[i].body) = FirstDates(cfgDays)
    /\ \A i \in 1..Len(feed) :
          /\ Len(feed[i]) <= cfgDays
          /\ (0 < cfgDays /\ cfgDays < Len(days)) =>
                 [j \in 1..Len(feed[i]) |-> feed[i][j].date_published]
                     = FirstDates(cfgDays)

\* A split at the lines that hold the separator character and nothing
\* else: the '%' opens a line and the newline follows it.
RECURSIVE LineSplitFrom(_, _, _)
LineSplitFrom(t, i, cur) ==
    IF i > Len(t) THEN <<cur>>
    ELSE IF /\ i < Len(t) /\ t[i] = PCT /\ t[i + 1] = NL
            /\ (i = 1 \/ t[i - 1] = NL)
         THEN <<cur>> \o LineSplitFrom(t, i + 2, <<>>)
         ELSE LineSplitFrom(t, i + 1, Append(cur, t[i]))

\* C8: the log is split only at lines that consist of '%' alone, so the
\* entries read are the non-empty pieces between such lines.
C8_SplitOnlyAtPercentLines ==
    pc # "read" =>
        entries = SelectSeq(LineSplitFrom(text, 1, <<>>),
                            LAMBDA item : item # <<>>)

Owner(i) ==
    CHOOSE j \in 1..i :
        Matches(entries[j]) /\ \A h \in (j + 1)..i : ~Matches(entries[h])

\* What chunk i is to contribute: the text after its date line, or all of it.
Contribution(i) ==
    IF Matches(entries[i])
    THEN SubSeq(entries[i], FirstNL(entries[i]) + 1, Len(entries[i]))
    ELSE entries[i]

\* The contributions of the chunks owned by the dated chunk j, in source
\* order.
RECURSIVE GroupFrom(_, _)
GroupFrom(j, i) ==
    IF i > Len(entries) THEN <<>>
    ELSE (IF Owner(i) = j THEN <<Contribution(i)>> ELSE <<>>)
         \o GroupFrom(j, i + 1)

\* The days the chunks call for, in source order: one for each dated
\* chunk, with the contributions of the chunks it owns.
RECURSIVE ExpectedFrom(_)
ExpectedFrom(i) ==
    IF i > Len(entries) THEN <<>>
    ELSE (IF Matches(entries[i])
          THEN <<[date |-> entries[i][1].v, entries |-> GroupFrom(i, i)]>>
          ELSE <<>>)
         \o ExpectedFrom(i + 1)

DaysOfDate(sq, d) == SelectSeq(sq, LAMBDA x : x.date = d)

\* C7: every chunk contributes one entry to one day, the day opened by the
\* nearest dated chunk at or before it; each day holds the contributions of
\* its chunks in source order, and the sort moves whole days only: for each
\* date, the days of that date are the ones its dated chunks call for, in
\* source order.
C7_EveryChunkInItsDay ==
    DaysCollected =>
        LET got == [a \in 1..Len(days) |->
                       [date |-> days[a].date, entries |-> days[a].entries]]
            expected == ExpectedFrom(1)
        IN  /\ Len(got) = Len(expected)
            /\ \A d \in {got[a].date : a \in 1..Len(got)}
                        \cup {expected[a].date : a \in 1..Len(expected)} :
                   DaysOfDate(got, d) = DaysOfDate(expected, d)

C7_Witness ==
    /\ DaysCollected
    /\ Len(entries) = 3
    /\ Len(days) = 2
    /\ Len(days[2].entries) = 2
    /\ entries[1][1].v = days[2].date
    /\ days[1].date > days[2].date

\* The archive has been built.
ArchiveBuilt ==
    \/ pc \in {"index", "pages", "day", "feed", "done"}
    \/ pc = "error" /\ err = "NameError"

Ascending(sq) == \A i, j \in 1..Len(sq) : i < j => sq[i] < sq[j]
Descending(sq) == \A i, j \in 1..Len(sq) : i < j => sq[i] > sq[j]

\* The years of the <dt> elements of an archive fragment, in order.
YearsShown(html) ==
    LET heads == SelectSeq(html, LAMBDA f : f.tag = "dt")
    IN  [j \in 1..Len(heads) |-> heads[j].a]

\* C4: the archive has a bucket for exactly the ISO week-years of the days,
\* each bucket holds exactly the ISO weeks of its days, once each and
\* ascending, and the fragment lists the years descending.
C4_ArchiveWeeks ==
    ArchiveBuilt =>
        /\ DOMAIN archive =
               {isocalendar(days[i].date).year : i \in 1..Len(days)}
        /\ \A y \in DOMAIN archive :
              /\ Ascending(archive[y])
              /\ {archive[y][j] : j \in 1..Len(archive[y])} =
                     {isocalendar(days[i].date).week :
                         i \in {h \in 1..Len(days) :
                                   isocalendar(days[h].date).year = y}}
        /\ Descending(YearsShown(html_for_archive(archive, 0)))
        /\ {YearsShown(html_for_archive(archive, 0))[j] :
               j \in 1..Len(YearsShown(html_for_archive(archive, 0)))}
               = DOMAIN archive

C4_Witness ==
    /\ pc = "done"
    /\ Len(days) = 3
    /\ DOMAIN archive = {2020, 2021}
    /\ archive[2021] = <<1, 2>>
    /\ \A i \in 1..Len(days) : split_date(days[i].date).year = 2021

NavTags == {"nav", "next", "prev", "/nav"}

NavOf(page) == SelectSeq(page.body, LAMBDA f : f.tag \in NavTags)
LinksOf(page, tag) == SelectSeq(page.body, LAMBDA f : f.tag = tag)

\* The rule of the links on the i-th day page written (i counts from 1):
\* none for a site of one day, else "next" to the day before it in the
\* list and "prev" to the day after it in the list.
NavRule(i) ==
    LET page == FilesOfKind("day")[i]
        n == Len(days)
    IN  /\ page.path = DayPath(days[i].date)
        /\ n = 1 => NavOf(page) = <<>>
        /\ n > 1 =>
              /\ Len(NavOf(page)) >= 3
              /\ Len(LinksOf(page, "next")) = (IF i > 1 THEN 1 ELSE 0)
              /\ i > 1 => LinksOf(page, "next")[1].a = days[i - 1].date
              /\ Len(LinksOf(page, "prev")) = (IF i < n THEN 1 ELSE 0)
              /\ i < n => LinksOf(page, "prev")[1].a = days[i + 1].date

\* C5 as stated: the rule, and the page of the earliest day has only a
\* "prev" link and the page of the latest day only a "next" link.
C5_AsStated ==
    \A i \in 1..Len(FilesOfKind("day")) :
        /\ NavRule(i)
        /\ (Len(days) > 1 /\ i = Len(days)) =>
              /\ Len(LinksOf(FilesOfKind("day")[i], "prev")) = 1
              /\ Len(LinksOf(FilesOfKind("day")[i], "next")) = 0
        /\ (Len(days) > 1 /\ i = 1) =>
              /\ Len(LinksOf(FilesOfKind("day")[i], "next")) = 1
              /\ Len(LinksOf(FilesOfKind("day")[i], "prev")) = 0

\* C5, amended: the rule, every day has its page once the loop is over,
\* and the page of the earliest day has only a "next" link and the page of
\* the latest day only a "prev" link.
C5_NextPrev ==
    /\ pc \in {"feed", "done"} => Len(FilesOfKind("day")) = Len(days)
    /\ \A i \in 1..Len(FilesOfKind("day")) :
          /\ NavRule(i)
          /\ (Len(days) > 1 /\ i = Len(days)) =>
                /\ Len(LinksOf(FilesOfKind("day")[i], "next")) = 1
                /\ Len(LinksOf(FilesOfKind("day")[i], "prev")) = 0
          /\ (Len(days) > 1 /\ i = 1) =>
                /\ Len(LinksOf(FilesOfKind("day")[i], "prev")) = 1
                /\ Len(LinksOf(FilesOfKind("day")[i], "next")) = 0

C5_Witness ==
    /\ pc = "done"
    /\ Len(days) = 3
    /\ Len(FilesOfKind("day")) = 3
    /\ Len(LinksOf(FilesOfKind("day")[2], "next")) = 1
    /\ Len(LinksOf(FilesOfKind("day")[2], "prev")) = 1

\* The bodies of the days of week yw, in the order of the day list.
RECURSIVE WeekBodyFrom(_, _)
WeekBodyFrom(yw, i) ==
    IF i > Len(days) THEN <<>>
    ELSE (IF get_year_week(days[i].date) = yw THEN DayBody(days[i]) ELSE <<>>)
         \o WeekBodyFrom(yw, i + 1)

\* The pages the links of an archive fragment point to.
WeekLinks(html) ==
    {[kind |-> "week", y |-> html[j].a, m |-> 0, d |-> html[j].b] :
        j \in {h \in 1..Len(html) : html[h].tag = "link"}}

\* C9: no week page is written twice; once create_day_and_week_pages is
\* over, the week pages are those of the ISO weeks of the days, the body of
\* each is the bodies of the days of its week in descending date order,
\* the last page written is the one of the last day's week, and the pages
\* are the ones the archive links to.
C9_WeekPagesOnce ==
    LET weeks == FilesOfKind("week")
    IN  /\ \A i, j \in 1..Len(weeks) :
              weeks[i].path = weeks[j].path => i = j
        /\ pc \in {"feed", "done"} =>
              /\ {weeks[i].path : i \in 1..Len(weeks)} =
                     {WeekPath(get_year_week(days[i].date)) :
                         i \in 1..Len(days)}
              /\ \A i \in 1..Len(weeks) :
                    \E yw \in {get_year_week(days[h].date) :
                                  h \in 1..Len(days)} :
                        /\ weeks[i].path = WeekPath(yw)
                        /\ weeks[i].body = WeekBodyFrom(yw, 1)
              /\ files[Len(files)].path =
                     WeekPath(get_year_week(days[Len(days)].date))
              /\ {weeks[i].path : i \in 1..Len(weeks)} =
                     WeekLinks(html_for_archive(archive, 0))

C9_Witness ==
    /\ pc = "done"
    /\ Len(FilesOfKind("week")) = 2
    /\ \E i \in 1..2 : Len(DatesShown(FilesOfKind("week")[i].body)) = 2

\* Every (year, week) of the archive, as the page it stands for.
ArchiveWeeks ==
    UNION {{[kind |-> "week", y |-> y, m |-> 0, d |-> archive[y][j]] :
               j \in 1..Len(archive[y])} : y \in DOMAIN archive}

SelfMarks(html) ==
    SelectSeq(html, LAMBDA f : f.tag = "self")

\* C10: the archive of a week page marks that week, once, and links every
\* other week; the archive of the home page and of a day page marks none
\* and links every week.
C10_CurrentMarker ==
    \A i \in 1..Len(files) :
        LET page == files[i]
            marks == SelfMarks(page.archive)
        IN  IF page.path.kind = "week"
            THEN /\ Len(marks) = 1
                 /\ marks[1].a = page.path.y
                 /\ marks[1].b = page.path.d
                 /\ WeekLinks(page.archive) = ArchiveWeeks \ {page.path}
            ELSE /\ marks = <<>>
                 /\ WeekLinks(page.archive) = ArchiveWeeks

C10_Witness ==
    /\ pc = "done"
    /\ Len(FilesOfKind("week")) = 3
    /\ Cardinality(ArchiveWeeks) = 3

====
